---- MODULE Spec2Model ----
(***************************************************************************)
(* A model of the goingenv archive engine: the crypto service              *)
(* (internal/crypto/encryption.go), the archive service (package archive:  *)
(* Pack, Unpack, List and their helpers), the scanner service (package     *)
(* scanner: ScanFiles) and the unpack command (internal/cli/unpack.go),    *)
(* run against a small filesystem.                                         *)
(*                                                                         *)
(* Representation.                                                         *)
(*  - A path is a sequence of path segments (strings), absolute from the   *)
(*    filesystem root <<>>.                                                *)
(*  - A plain file is a record [content, mode, mtime]; content is a        *)
(*    string, mode the permission bits, mtime in milliseconds.             *)
(*  - A tar stream is the sequence of its members.                         *)
(*  - A byte string holding (parts of) containers is a sequence of         *)
(*    segments [c, from, to]: bytes from..to-1 of the serialisation of the *)
(*    container term c = [salt, nonce, pw, pt].  The AEAD is symbolic:     *)
(*    a sealed text opens only under the key and nonce it was sealed with. *)
(*  - Regular expressions and glob patterns are strings, matched character *)
(*    by character against the text of a path or a name.                   *)
(***************************************************************************)
EXTENDS Integers, Sequences, FiniteSets, TLC

(***************************************************************************)
(* Program constants                                                       *)
(***************************************************************************)
SaltSize == 32
NonceSize == 12
TagSize == 16
TarBlock == 512
MetadataName == <<"metadata.json">>
MetadataMode == 420
NowT == 9000

(***************************************************************************)
(* Bounds of the model                                                     *)
(***************************************************************************)
MaxFiles == 2
MaxRand == 1
MaxEnvChanges == 1
MaxCrafted == 2
MaxShortLen == 61
MaxScanDepth == 2
SmallFileLimit == 5
MaxEncRand == 2
MaxEncrypts == 2
MaxPacks == 2
MaxClock == 1
MaxFlight == 2

(***************************************************************************)
(* Byte strings of container data                                          *)
(***************************************************************************)
Pad512(n) == ((n + TarBlock - 1) \div TarBlock) * TarBlock

RECURSIVE TarLen(_)
TarLen(tar) ==
  IF tar = <<>> THEN 2 * TarBlock
  ELSE TarBlock + Pad512(Head(tar).size) + TarLen(Tail(tar))

\* length of salt || nonce || Seal(pt): Seal appends the tag
CLen(c) == SaltSize + NonceSize + TarLen(c.pt) + TagSize

Serialize(c) == << [c |-> c, from |-> 0, to |-> CLen(c)] >>

RECURSIVE BLen(_)
BLen(b) == IF b = <<>> THEN 0 ELSE (Head(b).to - Head(b).from) + BLen(Tail(b))

RECURSIVE Take(_, _)
Take(b, n) ==
  IF n <= 0 \/ b = <<>> THEN <<>>
  ELSE LET h == Head(b)
           l == h.to - h.from
       IN IF l <= n THEN <<h>> \o Take(Tail(b), n - l)
          ELSE << [h EXCEPT !.to = h.from + n] >>

RECURSIVE Drop(_, _)
Drop(b, n) ==
  IF b = <<>> THEN <<>>
  ELSE IF n <= 0 THEN b
  ELSE LET h == Head(b)
           l == h.to - h.from
       IN IF l <= n THEN Drop(Tail(b), n - l)
          ELSE << [h EXCEPT !.from = h.from + n] >> \o Tail(b)

\* adjacent pieces of the same container are one piece
RECURSIVE Normalize(_)
Normalize(b) ==
  IF Len(b) < 2 THEN b
  ELSE LET h == b[1]
           g == b[2]
       IN IF h.c = g.c /\ h.to = g.from
          THEN Normalize(<< [h EXCEPT !.to = g.to] >> \o SubSeq(b, 3, Len(b)))
          ELSE <<h>> \o Normalize(Tail(b))

\* write(2) of data at offset 0 of a file holding old, without truncation
Overlay(old, data) == Normalize(data \o Drop(old, BLen(data)))

\* the byte values of a slice lying within the first 44 bytes of a
\* container file (salt, then nonce): containers with equal salts (nonces)
\* have equal bytes there
RECURSIVE HeadBytes(_)
HeadBytes(b) ==
  IF b = <<>> THEN <<>>
  ELSE LET h == Head(b)
           v == IF "flipped" \in DOMAIN h.c
                THEN LET o == h.c.flipped
                     IN -(1 + (IF h.from < SaltSize THEN o.salt ELSE o.nonce))
                ELSE IF h.from < SaltSize THEN h.c.salt ELSE h.c.nonce
       IN << [c |-> v, from |-> h.from, to |-> h.to] >> \o HeadBytes(Tail(b))

\* the bytes b with one bit of the byte at offset pos inverted: that byte no
\* longer is the byte of the container it came from
Flip(b, pos) ==
  LET old == Take(Drop(b, pos), 1)
  IN Take(b, pos)
     \o << [c |-> [flipped |-> old[1].c], from |-> pos, to |-> pos + 1] >>
     \o Drop(b, pos + 1)

(***************************************************************************)
(* Crypto service (internal/crypto/encryption.go)                          *)
(***************************************************************************)
\* pbkdf2.Key(password, salt, ...): a key is determined by, and determines,
\* the password and the salt bytes
PBKDF2(password, saltBytes) ==
  [pw |-> password, salt |-> Normalize(HeadBytes(saltBytes))]

\* gcm.Seal(nil, nonce, data, nil) under key: the sealed bytes 44..CLen of
\* the container term [salt, nonce, pw, pt]
Container(salt, nonce, password, data) ==
  [salt |-> salt, nonce |-> nonce, pw |-> password, pt |-> data]

\* a gcm.Open that does not authenticate the key: it opens a complete sealed
\* text under any password
GcmOpensAnyKey(key, nonceBytes, ct) ==
  /\ Len(ct) = 1
  /\ ct[1].from = SaltSize + NonceSize
  /\ ct[1].to = CLen(ct[1].c)

\* gcm.Open succeeds exactly on a complete sealed text, under the key and
\* the nonce it was sealed with
GcmOpens(key, nonceBytes, ct) ==
  /\ Len(ct) = 1
  /\ ct[1].from = SaltSize + NonceSize
  /\ ct[1].to = CLen(ct[1].c)
  /\ key = PBKDF2(ct[1].c.pw, Take(Serialize(ct[1].c), SaltSize))
  /\ Normalize(HeadBytes(nonceBytes))
       = << [c |-> ct[1].c.nonce, from |-> SaltSize, to |-> SaltSize + NonceSize] >>

\* the buffer key := pbkdf2.Key(...) when the function returns: it exists if
\* the derivation ran, and nothing writes to it afterwards
KeyBuffer(derived) == [alloc |-> derived, zeroed |-> FALSE]

CryptoFail(operation, msg, kdf, open) ==
  [ok |-> FALSE, op |-> operation, err |-> msg, out |-> <<>>, kdf |-> kdf, open |-> open,
   keybuf |-> KeyBuffer(kdf)]

\* an Encrypt that does not put what rand.Read gave into the container
EncryptFixedSalt(data, password, salt, nonce, randOk) ==
  IF TarLen(data) = 0 THEN CryptoFail("encrypt", "data cannot be empty", FALSE, FALSE)
  ELSE IF password = "" THEN CryptoFail("encrypt", "password cannot be empty", FALSE, FALSE)
  ELSE IF ~randOk THEN CryptoFail("encrypt", "failed to generate salt", FALSE, FALSE)
  ELSE [ok |-> TRUE, op |-> "encrypt", err |-> "",
        out |-> Serialize(Container(0, 0, password, data)),
        kdf |-> TRUE, open |-> FALSE, keybuf |-> KeyBuffer(TRUE)]

\* Encrypt, with the two draws of rand.Read as parameters (randOk: rand.Read
\* succeeded).  out is the container file's bytes.
Encrypt(data, password, salt, nonce, randOk) ==
  IF TarLen(data) = 0 THEN CryptoFail("encrypt", "data cannot be empty", FALSE, FALSE)
  ELSE IF password = "" THEN CryptoFail("encrypt", "password cannot be empty", FALSE, FALSE)
  ELSE IF ~randOk THEN CryptoFail("encrypt", "failed to generate salt", FALSE, FALSE)
  ELSE [ok |-> TRUE, op |-> "encrypt", err |-> "",
        out |-> Serialize(Container(salt, nonce, password, data)),
        kdf |-> TRUE, open |-> FALSE, keybuf |-> KeyBuffer(TRUE)]

\* the length below which Decrypt rejects its input unread
DecryptMinLen == SaltSize + NonceSize

\* Decrypt; kdf and open record whether key derivation and gcm.Open ran
Decrypt(data, password) ==
  IF BLen(data) < DecryptMinLen
  THEN CryptoFail("decrypt", "invalid encrypted data: too short", FALSE, FALSE)
  ELSE IF password = ""
  THEN CryptoFail("decrypt", "password cannot be empty", FALSE, FALSE)
  ELSE LET salt == Take(data, SaltSize)
           nonce == Take(Drop(data, SaltSize), NonceSize)
           ciphertext == Drop(data, SaltSize + NonceSize)
           key == PBKDF2(password, salt)
       IN IF GcmOpens(key, nonce, ciphertext)
          THEN [ok |-> TRUE, op |-> "decrypt", err |-> "",
                out |-> ciphertext[1].c.pt, kdf |-> TRUE, open |-> TRUE,
                keybuf |-> KeyBuffer(TRUE)]
          ELSE CryptoFail("decrypt",
                 "decryption failed: invalid password or corrupted data", TRUE, TRUE)

(***************************************************************************)
(* Paths and the filesystem                                                *)
(***************************************************************************)
\* filepath.Clean of an absolute path: "." and "" vanish, ".." removes the
\* segment before it (and is dropped at the root)
RECURSIVE CleanAcc(_, _)
CleanAcc(acc, rest) ==
  IF rest = <<>> THEN acc
  ELSE LET h == Head(rest)
       IN IF h = "." \/ h = "" THEN CleanAcc(acc, Tail(rest))
          ELSE IF h = ".."
          THEN CleanAcc(IF acc = <<>> THEN <<>> ELSE SubSeq(acc, 1, Len(acc) - 1),
                        Tail(rest))
          ELSE CleanAcc(Append(acc, h), Tail(rest))

\* filepath.Join(dir, name)
Join(dir, name) == CleanAcc(<<>>, dir \o name)

\* filepath.Dir(path)
Dir(path) == IF path = <<>> THEN <<>> ELSE SubSeq(path, 1, Len(path) - 1)

\* targetPath + ".backup"
BackupPath(path) ==
  IF path = <<>> THEN <<".backup">>
  ELSE Append(Dir(path), path[Len(path)] \o ".backup")

IsPrefix(d, path) == Len(d) <= Len(path) /\ SubSeq(path, 1, Len(d)) = d

Prefixes(path) == { SubSeq(path, 1, n) : n \in 0..Len(path) }

File(content, mode, mtime) == [content |-> content, mode |-> mode, mtime |-> mtime]

\* f with path p set to v, and with path p removed
Put(f, p, v) == (p :> v) @@ f
Del(f, p) == [q \in DOMAIN f \ {p} |-> f[q]]

\* sha256 of a content: a value determined by, and determining, the content
Sha256(content) == <<"sha256", content>>

\* tar.Writer.WriteHeader with Format unspecified rounds ModTime to the
\* nearest second (times are in milliseconds)
TarRoundTime(t) == ((t + 500) \div 1000) * 1000

(***************************************************************************)
(* Strings: path texts and the regular expressions of the scanner          *)
(***************************************************************************)
\* s[n:] and the one-character string s[i-1:i]
StrTail(s, n) == SubSeq(s, n + 1, Len(s))
Ch(s, i) == SubSeq(s, i, i)

\* strings.Count(s, c) for a one-character c
Count(s, c) == Cardinality({ i \in 1..Len(s) : Ch(s, i) = c })

\* the text of a path: its segments joined by the separator
RECURSIVE PathString(_)
PathString(path) ==
  IF path = <<>> THEN ""
  ELSE IF Len(path) = 1 THEN path[1]
  ELSE path[1] \o "/" \o PathString(Tail(path))

\* regexp.Compile, for the expressions made of literal characters, escaped
\* characters, ".", "*" after an atom, "^" in front and "$" at the end: a
\* "*" with nothing to repeat is an error
Compiles(re) ==
  /\ ~(re # "" /\ Ch(re, 1) = "*")
  /\ \A i \in 2..Len(re) :
       ~(Ch(re, i) = "*" /\ Ch(re, i - 1) = "*" /\ ~(i > 2 /\ Ch(re, i - 2) = "\\"))

\* the first atom of re: its length, and whether it matches the character c
AtomLen(re) == IF Ch(re, 1) = "\\" THEN 2 ELSE 1
AtomMatches(re, c) ==
  IF Ch(re, 1) = "\\" THEN c = Ch(re, 2)
  ELSE IF Ch(re, 1) = "." THEN TRUE
  ELSE c = Ch(re, 1)

\* re matches a prefix of s
RECURSIVE MatchHere(_, _)
MatchHere(re, s) ==
  IF re = "" THEN TRUE
  ELSE IF re = "$" THEN s = ""
  ELSE LET n == AtomLen(re)
           rest == StrTail(re, n)
       IN IF rest # "" /\ Ch(rest, 1) = "*"
          THEN \E k \in 0..Len(s) :
                 /\ \A i \in 1..k : AtomMatches(re, Ch(s, i))
                 /\ MatchHere(StrTail(rest, 1), StrTail(s, k))
          ELSE /\ s # ""
               /\ AtomMatches(re, Ch(s, 1))
               /\ MatchHere(rest, StrTail(s, 1))

\* regex.MatchString(s): re matches somewhere in s
MatchString(re, s) ==
  IF re # "" /\ Ch(re, 1) = "^" THEN MatchHere(StrTail(re, 1), s)
  ELSE \E i \in 0..Len(s) : MatchHere(re, StrTail(s, i))

MatchesAny(regexes, s) == \E i \in 1..Len(regexes) : MatchString(regexes[i], s)

SrcRoot == <<"p">>
TargetDir == <<"t">>
OutputPath == <<"p", ".goingenv", "a.enc">>
RelNames == { <<".env">>, <<".env.backup">>, <<"metadata.json">> }
Passwords == { "", "p", "q" }
AllProcs == {1, 2}

VARIABLES
  fs,       \* plain files: path -> [content, mode, mtime]
  dirs,     \* the directories that exist
  store,    \* archive files: path -> bytes of container data
  tmp,      \* the Pack calls whose temporary tar file exists
  scanned,  \* the FileRecords the last scan returned
  envn,     \* number of changes made to the source files by others
  pc,       \* per Pack call: its position
  popts,    \* per Pack call: its PackOptions
  tarw,     \* per Pack call: the members written to its tar so far
  pidx,     \* per Pack call: index of the file being written
  hdr,      \* per Pack call: the header written for the current file
  enc,      \* per Pack call: the encrypted data
  pres,     \* per Pack call: what it returned
  pre,      \* per Pack call: the output file as it was when Pack was called
  seen,     \* per Pack call: the source files as writeFileToTar read them
  upc,      \* the Unpack call: its position
  uopts,    \* the Unpack call: its UnpackOptions
  utar,     \* the Unpack call: the members of the decrypted tar
  uidx,     \* the Unpack call: index of the next member
  ures,     \* the Unpack call: what it returned
  fs0,      \* plain files as they were when Unpack was called
  dirs0,    \* directories as they were when Unpack was called
  cin,      \* Decrypt on its own: the input
  cout,     \* Decrypt on its own: the result
  ein,      \* Encrypt on its own: the input of every call
  eout,     \* Encrypt on its own: per call, what rand.Read gave and the result
  bad,      \* the paths at which an operation fails: path -> the operation
  spc,      \* the ScanFiles call: its position
  sopts,    \* the ScanFiles call: its ScanOptions, defaults filled in
  sconf,    \* the ScanFiles call: the Config of its Service
  swork,    \* the ScanFiles call: the entries the walk has still to visit
  sinfo,    \* the ScanFiles call: the FileInfo of the entry being visited
  sfiles,   \* the ScanFiles call: the records gathered so far
  sres,     \* the ScanFiles call: what it returned
  sprev,    \* the ScanFiles call before this one: its root and what it returned
  cmd,      \* the unpack command: its flags and what it listed and selected
  clock,    \* the wall clock, in seconds
  made,     \* the archive paths successful pack commands wrote, oldest first
  model,    \* the TUI: the fields of its Model
  flight,   \* the TUI: the commands dispatched whose message Update has not handled
  tlast,    \* the TUI: the message the last Update handled
  tquit     \* the TUI: tea.Quit was returned

packVars == <<tmp, pc, popts, tarw, pidx, hdr, enc, pres, pre, seen>>
unpackVars == <<upc, uopts, utar, uidx, ures, fs0, dirs0>>
cryptoVars == <<cin, cout, ein, eout>>
scanVars == <<bad, spc, sopts, sconf, swork, sinfo, sfiles, sres, sprev>>
cliVars == <<cmd>>
timeVars == <<clock, made>>
tuiVars == <<model, flight, tlast, tquit>>
vars == <<fs, dirs, store, scanned, envn, packVars, unpackVars, cryptoVars, scanVars, cliVars,
          timeVars, tuiVars>>

(***************************************************************************)
(* Results                                                                 *)
(***************************************************************************)
NoResult == [returned |-> FALSE, ok |-> FALSE, type |-> "", op |-> "", step |-> ""]
Success == [returned |-> TRUE, ok |-> TRUE, type |-> "", op |-> "", step |-> ""]
ArchiveError(operation, step) ==
  [returned |-> TRUE, ok |-> FALSE, type |-> "ArchiveError", op |-> operation, step |-> step]

(***************************************************************************)
(* Scanner output (the EnvFile records handed to Pack)                     *)
(***************************************************************************)
\* the EnvFile record ScanFiles builds for the file at root/rel
EnvFile(files, root, rel) ==
  [path |-> root \o rel, relativePath |-> rel,
   size |-> Len(files[root \o rel].content),
   modTime |-> files[root \o rel].mtime,
   checksum |-> Sha256(files[root \o rel].content)]

Range(seq) == { seq[i] : i \in 1..Len(seq) }

\* the lists of at most MaxFiles records a caller can hand to Pack
FileLists(recs) == UNION { [1..n -> Range(recs)] : n \in 0..MaxFiles }

(***************************************************************************)
(* Scanner service: ScanFiles                                              *)
(***************************************************************************)
DefaultDepth == 3
DefaultMaxFileSize == 10485760
DefaultEnvPatterns == << "\\.env.*" >>
DefaultExcludePatterns ==
  << "node_modules/", "\\.git/", "vendor/", "dist/", "build/", "target/", "bin/",
     "obj/", "\\.next/", "\\.nuxt/", "coverage/" >>

\* the working directory of the process: what the root path "." names
Cwd == SrcRoot

\* the names that occur in the model's trees, in the order of their bytes
\* (the order in which filepath.Walk visits the entries of a directory)
NameOrder ==
  << ".env", ".env.backup", ".env.big", ".goingenv", "a", "b", "c", "d", "metadata.json",
     "node_modules" >>

\* filepath.Rel(root, path) for a path at or below root
Rel(root, path) ==
  IF path = root THEN << "." >> ELSE SubSeq(path, Len(root) + 1, Len(path))

\* strings.Count(relPath, string(filepath.Separator))
Depth(relPath) == Count(PathString(relPath), "/")

\* os.Lstat(path) of an entry that exists
Lstat(files, ds, path) ==
  IF path \in ds
  THEN [isDir |-> TRUE, size |-> 0, modTime |-> 0, name |-> path[Len(path)]]
  ELSE [isDir |-> FALSE, size |-> Len(files[path].content),
        modTime |-> files[path].mtime, name |-> path[Len(path)]]

\* readDirNames(path): the entries of the directory, sorted by name
ReadDirNames(files, ds, path) ==
  LET names == SelectSeq(NameOrder,
                         LAMBDA n : Append(path, n) \in (DOMAIN files \cup ds))
  IN [i \in 1..Len(names) |-> Append(path, names[i])]

\* a scan that excludes no directory
ExcludedNever(path, regexes) == FALSE

\* the directory is pruned: path + "/" matches an exclude pattern
Excluded(path, regexes) == MatchesAny(regexes, PathString(path) \o "/")

\* a scan without a size limit
TooLargeNever(info, config) == FALSE

\* info.Size() > s.config.MaxFileSize
TooLarge(info, config) == info.size > config.maxFileSize

\* a depth check that lets everything pass
TooDeepNever(relPath, opts) == FALSE

\* depth > opts.MaxDepth
TooDeep(relPath, opts) == Depth(relPath) > opts.maxDepth

\* a ScanFiles that hands back what it gathered, error or not
ScanResultPartial(files, failed) == files

\* the slice ScanFiles returns: nil with an error, files without
ScanResult(files, failed) == IF failed THEN <<>> ELSE files

ScanError(path) ==
  [returned |-> TRUE, ok |-> FALSE, type |-> "ScanError", path |-> path]
CompileError == [returned |-> TRUE, ok |-> FALSE, type |-> "error", path |-> <<>>]
ScanSuccess == [returned |-> TRUE, ok |-> TRUE, type |-> "", path |-> <<>>]
NoScanResult == [returned |-> FALSE, ok |-> FALSE, type |-> "", path |-> <<>>]
NoInfo == [isDir |-> FALSE, size |-> 0, modTime |-> 0, name |-> ""]

\* the operation named op fails at path
Fails(path, op) == path \in DOMAIN bad /\ bad[path] = op

\* ScanFiles returns an error
ScanFail(path) ==
  /\ spc' = "done"
  /\ sres' = ScanError(path)
  /\ scanned' = ScanResult(sfiles, TRUE)

\* the walk goes on with the entries of work, or ends when none is left
ScanContinue(work, files) ==
  /\ swork' = work
  /\ sfiles' = files
  /\ IF work = <<>>
     THEN /\ spc' = "done"
          /\ sres' = ScanSuccess
          /\ scanned' = ScanResult(files, FALSE)
     ELSE /\ spc' = "stat"
          /\ UNCHANGED <<sres, scanned>>

\* what a caller can pass as ScanOptions (an empty root path, written <<>>,
\* and empty pattern lists ask for the defaults), and the Configs a Service
\* can hold
ScanRoots == { <<>>, SrcRoot \o <<"a">>, <<"nowhere">> }
ScanDepths == 0..MaxScanDepth
PatternLists == { <<>>, << "\\.env$" >>, << "*.env" >> }
ExcludeLists == { <<>>, << "a/" >> }
Configs ==
  { [defaultDepth |-> DefaultDepth, envPatterns |-> DefaultEnvPatterns,
     envExcludePatterns |-> ex, excludePatterns |-> DefaultExcludePatterns,
     maxFileSize |-> m] :
      ex \in { <<>>, << "\\.backup$" >> }, m \in { SmallFileLimit, DefaultMaxFileSize } }

\* ScanFiles up to the call of filepath.Walk: the defaults and the
\* compilation of the patterns
ScanBeginAt(roots) ==
  /\ spc = "idle"
  /\ \E config \in Configs, rootPath \in roots, maxDepth \in ScanDepths,
        patterns \in PatternLists, excludePatterns \in ExcludeLists :
       LET opts == [rootPath |-> IF rootPath = <<>> THEN Cwd ELSE rootPath,
                    maxDepth |-> IF maxDepth = 0 THEN config.defaultDepth ELSE maxDepth,
                    patterns |-> IF Len(patterns) = 0 THEN config.envPatterns
                                 ELSE patterns,
                    envExcludePatterns |-> config.envExcludePatterns,
                    excludePatterns |-> IF Len(excludePatterns) = 0
                                        THEN config.excludePatterns
                                        ELSE excludePatterns]
           compiled == \A l \in { opts.patterns, opts.envExcludePatterns,
                                  opts.excludePatterns } :
                         \A i \in 1..Len(l) : Compiles(l[i])
       IN /\ sopts' = opts
          /\ sconf' = config
          /\ IF ~compiled
             THEN /\ spc' = "done"
                  /\ sres' = CompileError
                  /\ scanned' = ScanResult(sfiles, TRUE)
                  /\ UNCHANGED swork
             ELSE /\ swork' = << opts.rootPath >>
                  /\ spc' = "stat"
                  /\ UNCHANGED <<sres, scanned>>
  /\ UNCHANGED <<fs, dirs, store, envn, packVars, unpackVars, cryptoVars, cliVars,
                 timeVars, tuiVars, sprev,
                 bad, sinfo, sfiles>>

ScanBegin == ScanBeginAt(ScanRoots)

\* the place of a second copy of the project tree
TwinRoot == << "build" >> \o SrcRoot

\* a scan of the project tree at one of its two places
ScanTwinBegin == ScanBeginAt({SrcRoot, TwinRoot})

NoPrev == [set |-> FALSE, rootPath |-> <<>>, result |-> NoScanResult, paths |-> {}]

\* ScanFiles is called again with the options of the scan that has returned,
\* but for the root path: the other copy of the tree
ScanAgain ==
  /\ spc = "done"
  /\ ~sprev.set
  /\ sopts.rootPath \in {SrcRoot, TwinRoot}
  /\ sprev' = [set |-> TRUE, rootPath |-> sopts.rootPath, result |-> sres,
               paths |-> { f.relativePath : f \in Range(scanned) }]
  /\ sopts' = [sopts EXCEPT !.rootPath = IF @ = SrcRoot THEN TwinRoot ELSE SrcRoot]
  /\ swork' = << sopts'.rootPath >>
  /\ sfiles' = <<>>
  /\ sres' = NoScanResult
  /\ sinfo' = NoInfo
  /\ spc' = "stat"
  /\ UNCHANGED <<fs, dirs, store, scanned, envn, packVars, unpackVars, cryptoVars, cliVars,
                 timeVars, tuiVars, bad, sconf>>

\* filepath.Walk: os.Lstat of the next entry; when it fails the callback is
\* called with the error and returns a ScanError
ScanStat ==
  /\ spc = "stat"
  /\ LET path == Head(swork)
     IN IF path \notin (DOMAIN fs \cup dirs) \/ Fails(path, "lstat")
        THEN ScanFail(path) /\ UNCHANGED sinfo
        ELSE /\ sinfo' = Lstat(fs, dirs, path)
             /\ spc' = "visit"
             /\ UNCHANGED <<sres, scanned>>
  /\ UNCHANGED <<fs, dirs, store, envn, packVars, unpackVars, cryptoVars, cliVars,
                 timeVars, tuiVars, sprev,
                 bad, sopts, sconf, swork, sfiles>>

\* filepath.Walk: readDirNames of a directory, then the callback on the
\* entry; the entries of a directory that is not pruned come next
ScanVisit ==
  /\ spc = "visit"
  /\ LET path == Head(swork)
         rest == Tail(swork)
         relPath == Rel(sopts.rootPath, path)
     IN IF sinfo.isDir
        THEN IF path \notin dirs \/ Fails(path, "readdir")
             THEN ScanFail(path) /\ UNCHANGED <<swork, sfiles>>
             ELSE IF TooDeep(relPath, sopts) \/ Excluded(path, sopts.excludePatterns)
             THEN ScanContinue(rest, sfiles)
             ELSE ScanContinue(ReadDirNames(fs, dirs, path) \o rest, sfiles)
        ELSE IF TooDeep(relPath, sopts)
             THEN ScanContinue(rest, sfiles)
             ELSE IF TooLarge(sinfo, sconf)
             THEN ScanContinue(rest, sfiles)
             ELSE IF ~MatchesAny(sopts.patterns, sinfo.name)
             THEN ScanContinue(rest, sfiles)
             ELSE IF MatchesAny(sopts.envExcludePatterns, sinfo.name)
             THEN ScanContinue(rest, sfiles)
             ELSE IF path \notin DOMAIN fs \/ Fails(path, "open") \/ Fails(path, "read")
             THEN ScanFail(path) /\ UNCHANGED <<swork, sfiles>>
             ELSE ScanContinue(rest,
                    Append(sfiles,
                           [path |-> path, relativePath |-> relPath,
                            size |-> sinfo.size, modTime |-> sinfo.modTime,
                            checksum |-> Sha256(fs[path].content)]))
  /\ UNCHANGED <<fs, dirs, store, envn, packVars, unpackVars, cryptoVars, cliVars,
                 timeVars, tuiVars, sprev,
                 bad, sopts, sconf, sinfo>>

\* somebody else rewrites with a longer content, or removes, the file the
\* walk has just taken the FileInfo of
ScanEnvChange ==
  /\ envn < MaxEnvChanges
  /\ envn' = envn + 1
  /\ spc = "visit"
  /\ ~sinfo.isDir
  /\ LET path == Head(swork)
     IN /\ path \in DOMAIN fs
        /\ \/ fs' = [fs EXCEPT ![path] =
                       File(@.content \o "#more", @.mode, @.mtime + 1300)]
           \/ fs' = Del(fs, path)
  /\ UNCHANGED <<dirs, store, scanned, packVars, unpackVars, cryptoVars, scanVars,
                 cliVars, timeVars, tuiVars>>

(***************************************************************************)
(* Archive service: Pack                                                   *)
(***************************************************************************)
RECURSIVE SumSizes(_)
SumSizes(files) == IF files = <<>> THEN 0 ELSE Head(files).size + SumSizes(Tail(files))

\* types.Archive as Pack builds it (CreatedAt and Description play no part
\* in what follows and are left out)
Archive(files) == [files |-> files, totalSize |-> SumSizes(files), version |-> "1.0.0"]

\* len(metadataJSON): the JSON text grows with the number of records
JsonLen(archive) == 100 + 200 * Len(archive.files)

Member(name, mode, size, mtime, body, meta) ==
  [name |-> name, mode |-> mode, size |-> size, mtime |-> mtime,
   body |-> body, meta |-> meta]

\* a writeMetadata that names its member otherwise
MetadataMemberMisnamed(archive) ==
  Member(<< "manifest.json" >>, MetadataMode, JsonLen(archive), 0, "", <<archive>>)

\* the member writeMetadata writes
MetadataMember(archive) ==
  Member(MetadataName, MetadataMode, JsonLen(archive), 0, "", <<archive>>)

\* tar.Writer refuses the next header, and Close, while the last member has
\* fewer bytes than its header announced
Underfull(tar) ==
  /\ tar # <<>>
  /\ tar[Len(tar)].meta = <<>>
  /\ Len(tar[Len(tar)].body) < tar[Len(tar)].size

\* what os.WriteFile's write can have written when it returns: all of the
\* data, or, on an error, none or half of it
WriteLens(data) == { 0, BLen(data) \div 2, BLen(data) }

\* an os.WriteFile that never misses the directory
NoParentDirNever(ds, path) == FALSE

\* os.WriteFile(path, ...) cannot open path: its directory does not exist
NoParentDir(ds, path) == Dir(path) \notin ds

Snapshot(p) ==
  IF p \in DOMAIN store THEN [exists |-> TRUE, data |-> store[p]]
  ELSE [exists |-> FALSE, data |-> <<>>]

\* a return from Pack without the deferred os.Remove
PackReturnKeepsTemp(p, result) ==
  /\ pc' = [pc EXCEPT ![p] = "done"]
  /\ pres' = [pres EXCEPT ![p] = result]
  /\ tmp' = tmp

\* return from Pack: the deferred os.Remove deletes the temporary file
PackReturn(p, result) ==
  /\ pc' = [pc EXCEPT ![p] = "done"]
  /\ pres' = [pres EXCEPT ![p] = result]
  /\ tmp' = tmp \ {p}

\* the start of Pack with OutputPath outputPath: the checks of the options,
\* os.CreateTemp and writeMetadata
PackBeginAt(p, outputPath) ==
  /\ pc[p] = "idle"
  /\ \E files \in FileLists(scanned), pw \in Passwords, tmpOk \in BOOLEAN,
        metaOk \in BOOLEAN :
       /\ popts' = [popts EXCEPT ![p] =
                      [files |-> files, outputPath |-> outputPath, password |-> pw]]
       /\ pre' = [pre EXCEPT ![p] = Snapshot(outputPath)]
       /\ IF Len(files) = 0
          THEN PackReturn(p, ArchiveError("pack", "no files to pack")) /\ UNCHANGED <<tarw, pidx>>
          ELSE IF ~tmpOk
          THEN PackReturn(p, ArchiveError("pack", "create temporary file"))
               /\ UNCHANGED <<tarw, pidx>>
          ELSE IF ~metaOk
          THEN PackReturn(p, ArchiveError("pack", "write metadata"))
               /\ UNCHANGED <<tarw, pidx>>
          ELSE /\ tmp' = tmp \cup {p}
               /\ tarw' = [tarw EXCEPT ![p] = << MetadataMember(Archive(files)) >>]
               /\ pidx' = [pidx EXCEPT ![p] = 1]
               /\ pc' = [pc EXCEPT ![p] = "stat"]
               /\ UNCHANGED pres
  /\ UNCHANGED <<fs, dirs, store, scanned, envn, hdr, enc, seen, unpackVars, cryptoVars,
                 scanVars, cliVars, timeVars, tuiVars>>

PackBegin(p) == PackBeginAt(p, OutputPath)

\* concurrent Pack calls that all write to one path
ConcurrentPathShared(p) == OutputPath

\* the output path of the Pack call p when every call has its own
ConcurrentPath(p) ==
  Dir(OutputPath) \o << IF p = 1 THEN "concurrent-test-1.enc" ELSE "concurrent-test-2.enc" >>

\* the calls differ in their output paths only: same files, same password
PackBeginOwn(p) ==
  /\ PackBeginAt(p, ConcurrentPath(p))
  /\ \A q \in AllProcs \ {p} :
       pc[q] # "idle" => /\ popts'[p].files = popts[q].files
                           /\ popts'[p].password = popts[q].password

\* writeFileToTar, first half: os.Stat and tarWriter.WriteHeader
PackStat(p) ==
  /\ pc[p] = "stat"
  /\ LET file == popts[p].files[pidx[p]]
     IN \E ioOk \in BOOLEAN :
          IF file.path \notin DOMAIN fs
          THEN PackReturn(p, ArchiveError("pack", "stat file")) /\ UNCHANGED <<hdr, seen>>
          ELSE IF Underfull(tarw[p]) \/ ~ioOk
          THEN PackReturn(p, ArchiveError("pack", "write header")) /\ UNCHANGED <<hdr, seen>>
          ELSE /\ hdr' = [hdr EXCEPT ![p] =
                            [name |-> file.relativePath, mode |-> fs[file.path].mode,
                             size |-> Len(fs[file.path].content),
                             mtime |-> TarRoundTime(fs[file.path].mtime)]]
               /\ seen' = [seen EXCEPT ![p] = Append(seen[p], fs[file.path])]
               /\ pc' = [pc EXCEPT ![p] = "copy"]
               /\ UNCHANGED <<pres, tmp>>
  /\ UNCHANGED <<fs, dirs, store, scanned, envn, popts, tarw, pidx, enc, pre,
                 unpackVars, cryptoVars, scanVars, cliVars, timeVars, tuiVars>>

\* writeFileToTar, second half: os.Open and io.Copy into the tar writer
PackCopy(p) ==
  /\ pc[p] = "copy"
  /\ LET file == popts[p].files[pidx[p]]
     IN \E ioOk \in BOOLEAN :
          IF file.path \notin DOMAIN fs
          THEN PackReturn(p, ArchiveError("pack", "open file")) /\ UNCHANGED <<tarw, pidx>>
          ELSE IF Len(fs[file.path].content) > hdr[p].size \/ ~ioOk
          THEN PackReturn(p, ArchiveError("pack", "write file")) /\ UNCHANGED <<tarw, pidx>>
          ELSE /\ tarw' = [tarw EXCEPT ![p] =
                             Append(tarw[p],
                                    Member(hdr[p].name, hdr[p].mode, hdr[p].size,
                                           hdr[p].mtime, fs[file.path].content, <<>>))]
               /\ pidx' = [pidx EXCEPT ![p] = pidx[p] + 1]
               /\ pc' = [pc EXCEPT ![p] =
                           IF pidx[p] = Len(popts[p].files) THEN "finish" ELSE "stat"]
               /\ UNCHANGED <<pres, tmp>>
  /\ UNCHANGED <<fs, dirs, store, scanned, envn, popts, hdr, enc, pre, seen,
                 unpackVars, cryptoVars, scanVars, cliVars, timeVars, tuiVars>>

\* tarWriter.Close, Seek, io.ReadAll and crypto.Encrypt
PackFinish(p) ==
  /\ pc[p] = "finish"
  /\ \E ioOk \in BOOLEAN, randOk \in BOOLEAN, salt \in 1..MaxRand, nonce \in 1..MaxRand :
       IF Underfull(tarw[p]) \/ ~ioOk
       THEN PackReturn(p, ArchiveError("pack", "close tar writer")) /\ UNCHANGED enc
       ELSE LET r == Encrypt(tarw[p], popts[p].password, salt, nonce, randOk)
            IN IF ~r.ok
               THEN PackReturn(p, ArchiveError("pack", "encrypt data")) /\ UNCHANGED enc
               ELSE /\ enc' = [enc EXCEPT ![p] = r.out]
                    /\ pc' = [pc EXCEPT ![p] = "open"]
                    /\ UNCHANGED <<pres, tmp>>
  /\ UNCHANGED <<fs, dirs, store, scanned, envn, popts, tarw, pidx, hdr, pre, seen,
                 unpackVars, cryptoVars, scanVars, cliVars, timeVars, tuiVars>>

\* os.WriteFile, first half: open with O_WRONLY|O_CREATE|O_TRUNC
PackOpenOut(p) ==
  /\ pc[p] = "open"
  /\ \E ioOk \in BOOLEAN :
       IF NoParentDir(dirs, popts[p].outputPath) \/ ~ioOk
       THEN PackReturn(p, ArchiveError("pack", "write encrypted file")) /\ UNCHANGED store
       ELSE /\ store' = Put(store, popts[p].outputPath, <<>>)
            /\ pc' = [pc EXCEPT ![p] = "write"]
            /\ UNCHANGED <<pres, tmp>>
  /\ UNCHANGED <<fs, dirs, scanned, envn, popts, tarw, pidx, hdr, enc, pre, seen,
                 unpackVars, cryptoVars, scanVars, cliVars, timeVars, tuiVars>>

\* os.WriteFile, second half: write the data from offset 0, close, return
PackWriteOut(p) ==
  /\ pc[p] = "write"
  /\ \E n \in WriteLens(enc[p]) :
       /\ store' = Put(store, popts[p].outputPath,
                       Overlay(Snapshot(popts[p].outputPath).data, Take(enc[p], n)))
       /\ PackReturn(p, IF n = BLen(enc[p]) THEN Success
                        ELSE ArchiveError("pack", "write encrypted file"))
  /\ UNCHANGED <<fs, dirs, scanned, envn, popts, tarw, pidx, hdr, enc, pre, seen,
                 unpackVars, cryptoVars, scanVars, cliVars, timeVars, tuiVars>>

\* the process running Pack is killed: nothing more happens, no deferred
\* call runs
PackAbort(p) ==
  /\ pc[p] \in {"stat", "copy", "finish", "open", "write"}
  /\ pc' = [pc EXCEPT ![p] = "killed"]
  /\ UNCHANGED <<fs, dirs, store, scanned, envn, tmp, popts, tarw, pidx, hdr, enc,
                 pres, pre, seen, unpackVars, cryptoVars, scanVars, cliVars, timeVars, tuiVars>>

\* somebody else changes a source file that a running Pack has still to
\* read (a change made between the scan and the call of Pack is seen by Pack
\* as one made right after the call): rewrites it with a longer content, or
\* removes it
EnvChange(procs) ==
  /\ envn < MaxEnvChanges
  /\ envn' = envn + 1
  /\ \E p \in procs :
       /\ pc[p] \in {"stat", "copy"}
       /\ \E i \in pidx[p]..Len(popts[p].files) :
            LET path == popts[p].files[i].path
            IN /\ path \in DOMAIN fs
               /\ \/ fs' = [fs EXCEPT ![path] =
                              File(@.content \o "#more", @.mode, @.mtime + 1300)]
                  \/ fs' = Del(fs, path)
  /\ UNCHANGED <<dirs, store, scanned, packVars, unpackVars, cryptoVars,
                 scanVars, cliVars, timeVars, tuiVars>>

\* the caller creates the output directory after a Pack has failed
MakeOutputDir ==
  /\ pc[1] = "done"
  /\ ~pres[1].ok
  /\ Dir(OutputPath) \notin dirs
  /\ dirs' = dirs \cup Prefixes(Dir(OutputPath))
  /\ UNCHANGED <<fs, store, scanned, envn, packVars, unpackVars, cryptoVars, scanVars,
                 cliVars, timeVars, tuiVars>>

\* the caller calls Pack again, with the options of the call that failed
PackRetry ==
  /\ pc[1] = "done"
  /\ ~pres[1].ok
  /\ Dir(OutputPath) \in dirs
  /\ PackBegin(2)
  /\ popts'[2] = popts[1]

(***************************************************************************)
(* Archive service: Unpack                                                 *)
(***************************************************************************)
Exists(files, ds, path) == path \in DOMAIN files \/ path \in ds

\* os.MkdirAll(dir) fails when a file stands where a directory is needed
\* (and returns nil at once when dir is a directory already)
MkdirAllFails(files, dir) == \E d \in Prefixes(dir) : d \in DOMAIN files

\* path with its prefix old replaced by new
Rebase(path, old, new) == new \o SubSeq(path, Len(old) + 1, Len(path))

\* os.Rename(old, new) of an existing file or directory; a directory moves
\* with all that is below it
RenameFails(files, ds, old, new) ==
  \/ new \in ds
  \/ old \in ds /\ new \in DOMAIN files
  \/ Dir(new) \notin ds
RenameFiles(files, old, new) ==
  LET moved == { q \in DOMAIN files : IsPrefix(old, q) }
      kept == (DOMAIN files \ moved) \ {new}
  IN [q \in kept \cup { Rebase(m, old, new) : m \in moved } |->
        IF q \in kept THEN files[q]
        ELSE files[CHOOSE m \in moved : Rebase(m, old, new) = q]]
RenameDirs(ds, old, new) ==
  { d \in ds : ~IsPrefix(old, d) }
    \cup { Rebase(d, old, new) : d \in { e \in ds : IsPrefix(old, e) } }

\* the mode os.Create gives a new file: 0666 less the umask 022
CreateMode == 420

\* extractFile(tarReader, targetPath, header), failing at step fail (or at
\* none): the files afterwards
ExtractFile(files, targetPath, header, fail) ==
  LET created == IF targetPath \in DOMAIN files
                 THEN File("", files[targetPath].mode, NowT)
                 ELSE File("", CreateMode, NowT)
      copied == File(header.body, created.mode, NowT)
      chmoded == File(header.body, header.mode, NowT)
      done == File(header.body, header.mode, header.mtime)
  IN IF fail = "create" THEN files
     ELSE IF fail = "copy" THEN Put(files, targetPath, created)
     ELSE IF fail = "chmod" THEN Put(files, targetPath, copied)
     ELSE IF fail = "chtimes" THEN Put(files, targetPath, chmoded)
     ELSE Put(files, targetPath, done)

UnpackReturn(result) ==
  /\ upc' = "done"
  /\ ures' = result

\* Unpack(opts) up to its loop: os.ReadFile of the archive and
\* crypto.Decrypt
UnpackCall(opts, ioOk) ==
  /\ uopts' = opts
  /\ fs0' = fs
  /\ dirs0' = dirs
  /\ IF opts.archivePath \notin DOMAIN store \/ ~ioOk
     THEN UnpackReturn(ArchiveError("unpack", "read archive")) /\ UNCHANGED <<utar, uidx>>
     ELSE LET r == Decrypt(store[opts.archivePath], opts.password)
          IN IF ~r.ok
             THEN UnpackReturn(ArchiveError("unpack", "decrypt archive"))
                  /\ UNCHANGED <<utar, uidx>>
             ELSE /\ utar' = r.out
                  /\ uidx' = 1
                  /\ upc' = "loop"
                  /\ UNCHANGED ures
  /\ UNCHANGED <<fs, dirs, store, scanned, envn, packVars, cryptoVars, scanVars>>

\* a caller of the service calls Unpack
UnpackStart ==
  /\ upc = "idle"
  /\ \E pw \in Passwords, overwrite \in BOOLEAN, backup \in BOOLEAN, ioOk \in BOOLEAN :
       UnpackCall([archivePath |-> OutputPath, password |-> pw, targetDir |-> TargetDir,
                   overwrite |-> overwrite, backup |-> backup], ioOk)
  /\ UNCHANGED <<cliVars, timeVars, tuiVars>>

UnpackFailures == {"none", "mkdir", "rename", "create", "copy", "chmod", "chtimes"}

\* an Unpack that leaves an existing target alone only when no backup was
\* asked for
SkipsUnlessBackup(opts, exists) == exists /\ ~opts.overwrite /\ ~opts.backup

\* the member is skipped: its target exists and opts.Overwrite is false
Skips(opts, exists) == exists /\ ~opts.overwrite

\* one turn of Unpack's loop: tarReader.Next and the handling of the member
UnpackMember ==
  /\ upc = "loop"
  /\ IF uidx > Len(utar)
     THEN UnpackReturn(Success) /\ UNCHANGED <<fs, dirs, uidx>>
     ELSE LET header == utar[uidx]
              targetPath == Join(uopts.targetDir, header.name)
              backupPath == BackupPath(targetPath)
          IN IF header.name = MetadataName
             THEN uidx' = uidx + 1 /\ UNCHANGED <<fs, dirs, upc, ures>>
             ELSE \E fail \in UnpackFailures :
               IF (fail = "mkdir" /\ Dir(targetPath) \notin dirs)
                  \/ MkdirAllFails(fs, Dir(targetPath))
               THEN UnpackReturn(ArchiveError("unpack", "create directory"))
                    /\ UNCHANGED <<fs, dirs, uidx>>
               ELSE LET ds1 == dirs \cup Prefixes(Dir(targetPath))
                        exists == Exists(fs, ds1, targetPath)
                    IN IF Skips(uopts, exists)
                       THEN /\ dirs' = ds1
                            /\ uidx' = uidx + 1
                            /\ UNCHANGED <<fs, upc, ures>>
                       ELSE IF exists /\ uopts.backup
                               /\ (fail = "rename" \/ RenameFails(fs, ds1, targetPath, backupPath))
                       THEN /\ dirs' = ds1
                            /\ UnpackReturn(ArchiveError("unpack", "create backup"))
                            /\ UNCHANGED <<fs, uidx>>
                       ELSE LET renamed == exists /\ uopts.backup
                                fs1 == IF renamed THEN RenameFiles(fs, targetPath, backupPath)
                                       ELSE fs
                                ds2 == IF renamed THEN RenameDirs(ds1, targetPath, backupPath)
                                       ELSE ds1
                                failed == fail \in {"create", "copy", "chmod", "chtimes"}
                                           \/ targetPath \in ds2
                            IN /\ dirs' = ds2
                               /\ fs' = IF targetPath \in ds2 THEN fs1
                                        ELSE ExtractFile(fs1, targetPath, header, fail)
                               /\ IF failed
                                  THEN UnpackReturn(ArchiveError("unpack", "extract file"))
                                       /\ UNCHANGED uidx
                                  ELSE uidx' = uidx + 1 /\ UNCHANGED <<upc, ures>>
  /\ UNCHANGED <<store, scanned, envn, packVars, uopts, utar, fs0, dirs0, cryptoVars,
                 scanVars, cliVars, timeVars, tuiVars>>

(***************************************************************************)
(* Archive service: List                                                   *)
(***************************************************************************)
ListFail(step) == [ok |-> FALSE, err |-> ArchiveError("list", step), archive |-> Archive(<<>>)]

\* List(archivePath, password): the manifest of the archive
List(archivePath, password, ioOk) ==
  IF archivePath \notin DOMAIN store \/ ~ioOk THEN ListFail("read archive")
  ELSE LET r == Decrypt(store[archivePath], password)
       IN IF ~r.ok THEN ListFail("decrypt archive")
          ELSE IF r.out = <<>> THEN ListFail("read metadata")
          ELSE IF r.out[1].name # MetadataName THEN ListFail("missing metadata")
          ELSE IF r.out[1].meta = <<>> THEN ListFail("unmarshal metadata")
          ELSE [ok |-> TRUE, err |-> Success, archive |-> r.out[1].meta[1]]

(***************************************************************************)
(* The unpack command (internal/cli/unpack.go)                             *)
(***************************************************************************)
GoingEnvDir == SrcRoot \o << ".goingenv" >>

\* config.IsInitialized()
IsInitialized(files, ds) ==
  /\ GoingEnvDir \in ds
  /\ GoingEnvDir \o << ".gitignore" >> \in DOMAIN files

\* filepath.Match(pattern, name) for patterns of literal characters, "?"
\* and "*": neither "?" nor "*" matches a separator
RECURSIVE GlobMatch(_, _)
GlobMatch(pattern, name) ==
  IF pattern = "" THEN name = ""
  ELSE IF Ch(pattern, 1) = "*"
  THEN \E k \in 0..Len(name) :
         /\ \A i \in 1..k : Ch(name, i) # "/"
         /\ GlobMatch(StrTail(pattern, 1), StrTail(name, k))
  ELSE /\ name # ""
       /\ \/ Ch(pattern, 1) = "?" /\ Ch(name, 1) # "/"
          \/ Ch(pattern, 1) = Ch(name, 1)
       /\ GlobMatch(StrTail(pattern, 1), StrTail(name, 1))

\* filterFiles(files, includePatterns, excludePatterns)
FilterFiles(files, includePatterns, excludePatterns) ==
  SelectSeq(files,
    LAMBDA file :
      /\ Len(includePatterns) > 0
           => \E i \in 1..Len(includePatterns) :
                GlobMatch(includePatterns[i], PathString(file.relativePath))
      /\ ~\E i \in 1..Len(excludePatterns) :
            GlobMatch(excludePatterns[i], PathString(file.relativePath)))

\* checkFileConflicts(files, targetDir)
CheckFileConflicts(files, targetDir) ==
  SelectSeq(files, LAMBDA file : Exists(fs, dirs, Join(targetDir, file.relativePath)))

\* the values of the --include and --exclude flags
GlobLists == { <<>>, << ".env" >>, << "*.backup" >> }

CmdDone(archiveFile, include, exclude, filesToExtract, outcome) ==
  [ran |-> TRUE, archiveFile |-> archiveFile, include |-> include, exclude |-> exclude,
   filesToExtract |-> filesToExtract, outcome |-> outcome]

\* runUnpackCommand once the archive file is known, with -k and --target
\* given, up to the loop of the Unpack it calls; answer is what the user says
\* when asked to continue over existing files
RunUnpackWith(archiveFile) ==
  /\ upc = "idle"
  /\ ~cmd.ran
  /\ \E key \in Passwords, overwrite \in BOOLEAN, backup \in BOOLEAN,
        dryRun \in BOOLEAN, answer \in BOOLEAN, include \in GlobLists,
        exclude \in GlobLists, listOk \in BOOLEAN, ioOk \in BOOLEAN :
       LET listed == List(archiveFile, key, listOk)
           filesToExtract ==
             IF Len(include) > 0 \/ Len(exclude) > 0
             THEN FilterFiles(listed.archive.files, include, exclude)
             ELSE listed.archive.files
           conflicts == CheckFileConflicts(filesToExtract, TargetDir)
           asked == Len(conflicts) > 0 /\ ~overwrite /\ ~dryRun
       IN IF ~IsInitialized(fs, dirs) \/ archiveFile \notin DOMAIN store
             \/ key = "" \/ ~listed.ok
          THEN /\ cmd' = CmdDone(archiveFile, include, exclude, <<>>, "error")
               /\ UNCHANGED <<fs, dirs, store, scanned, envn, packVars, unpackVars,
                              cryptoVars, scanVars>>
          ELSE IF asked /\ ~answer
          THEN /\ cmd' = CmdDone(archiveFile, include, exclude, filesToExtract, "cancelled")
               /\ UNCHANGED <<fs, dirs, store, scanned, envn, packVars, unpackVars,
                              cryptoVars, scanVars>>
          ELSE IF dryRun
          THEN /\ cmd' = CmdDone(archiveFile, include, exclude, filesToExtract, "dry run")
               /\ UNCHANGED <<fs, dirs, store, scanned, envn, packVars, unpackVars,
                              cryptoVars, scanVars>>
          ELSE /\ cmd' = CmdDone(archiveFile, include, exclude, filesToExtract, "unpack")
               /\ UnpackCall([archivePath |-> archiveFile, password |-> key,
                              targetDir |-> TargetDir,
                              overwrite |-> (overwrite \/ asked), backup |-> backup],
                             ioOk)
  /\ UNCHANGED <<timeVars, tuiVars>>

\* runUnpackCommand with -f
RunUnpackCommand == RunUnpackWith(OutputPath)

\* the rank of a character among the bytes that occur in archive names
ByteOrder == "-.0123456789abcdefghijklmnopqrstuvwxyz"
ByteRank(c) == CHOOSE i \in 1..Len(ByteOrder) : Ch(ByteOrder, i) = c

\* a < b as strings, byte by byte: the order of the names os.ReadDir returns
RECURSIVE StrLess(_, _)
StrLess(a, b) ==
  IF b = "" THEN FALSE
  ELSE IF a = "" THEN TRUE
  ELSE IF Ch(a, 1) = Ch(b, 1) THEN StrLess(StrTail(a, 1), StrTail(b, 1))
  ELSE ByteRank(Ch(a, 1)) < ByteRank(Ch(b, 1))

RECURSIVE SortNames(_)
SortNames(S) ==
  IF S = {} THEN <<>>
  ELSE LET m == CHOOSE x \in S : \A y \in S \ {x} : StrLess(x, y)
       IN <<m>> \o SortNames(S \ {m})

\* strings.HasSuffix
HasSuffix(s, suffix) ==
  Len(s) >= Len(suffix) /\ SubSeq(s, Len(s) - Len(suffix) + 1, Len(s)) = suffix

\* Service.GetAvailableArchives(dir): the files of dir whose names end in
\* ".enc", in the order of os.ReadDir
GetAvailableArchives(dir) ==
  IF dir \notin dirs THEN <<>>
  ELSE LET names == { q[Len(q)] : q \in { r \in (DOMAIN store \cup DOMAIN fs) :
                                           r # <<>> /\ Dir(r) = dir } }
           sorted == SortNames(names)
       IN [i \in 1..Len(SelectSeq(sorted, LAMBDA n : HasSuffix(n, ".enc"))) |->
             dir \o << SelectSeq(sorted, LAMBDA n : HasSuffix(n, ".enc"))[i] >>]

\* runUnpackCommand without -f: the last of the available archives
RunUnpackLatest ==
  LET archives == GetAvailableArchives(GoingEnvDir)
  IN IF IsInitialized(fs, dirs) /\ Len(archives) = 0
     THEN /\ upc = "idle"
          /\ ~cmd.ran
          /\ cmd' = CmdDone(<<>>, <<>>, <<>>, <<>>, "error")
          /\ UNCHANGED <<fs, dirs, store, scanned, envn, packVars, unpackVars,
                         cryptoVars, scanVars, timeVars, tuiVars>>
     ELSE RunUnpackWith(IF Len(archives) = 0 THEN <<>> ELSE archives[Len(archives)])

(***************************************************************************)
(* The TUI (internal/tui)                                                  *)
(***************************************************************************)
\* the actions of the menu items of an initialized project, top to bottom
MenuItems == << "pack", "unpack", "list", "status", "settings", "help" >>

\* NewModel in an initialized project: the menu, its first item selected
NewModel ==
  [currentScreen |-> "menu", message |-> "", error |-> "", textInput |-> "",
   scannedFiles |-> 0, menu |-> 1]

\* SetScreen: the screen changes, message and error are reset, the text
\* input is emptied on the password screens
SetScreen(mdl, screen) ==
  [mdl EXCEPT !.currentScreen = screen,
              !.message = "",
              !.error = "",
              !.textInput = IF screen \in {"pack_password", "unpack_password",
                                           "list_password"}
                            THEN "" ELSE @]

\* SetError: sets the error, then calls SetScreen(ScreenMenu)
SetError(mdl, err) == SetScreen([mdl EXCEPT !.error = err, !.message = ""], "menu")

\* SetMessage
SetMessage(mdl, msg) == [mdl EXCEPT !.message = msg, !.error = ""]

\* what a key handler returns: the model, the command ("" for none or for
\* a command that calls no engine operation), and whether it is tea.Quit
Ret(mdl, command) == [model |-> mdl, cmd |-> command, quit |-> FALSE]

\* the keys pressed: "x" is any character key
Keys == { "enter", "esc", "q", "?", "up", "down", "x" }

\* m.menu.Update(msg): the list moves its cursor, without wrapping
MenuUpdate(index, key) ==
  IF key = "down" /\ index < Len(MenuItems) THEN index + 1
  ELSE IF key = "up" /\ index > 1 THEN index - 1
  ELSE index

HandleMenuKeys(mdl, key) ==
  IF key = "q" THEN [model |-> mdl, cmd |-> "", quit |-> TRUE]
  ELSE IF key = "?" THEN Ret(SetScreen(mdl, "help"), "")
  ELSE IF key = "enter"
  THEN LET action == MenuItems[mdl.menu]
       IN IF action = "pack" THEN Ret(mdl, "scan")
          ELSE IF action = "unpack" THEN Ret(SetScreen(mdl, "unpack_select"), "")
          ELSE IF action = "list" THEN Ret(SetScreen(mdl, "list_select"), "")
          ELSE Ret(SetScreen(mdl, action), "")
  ELSE Ret([mdl EXCEPT !.menu = MenuUpdate(@, key)], "")

HandlePackPasswordKeys(mdl, key) ==
  IF key = "esc" THEN Ret(SetScreen(mdl, "menu"), "")
  ELSE IF key = "enter"
  THEN IF mdl.textInput = "" THEN Ret(SetError(mdl, "Password cannot be empty"), "")
       ELSE Ret(SetScreen(mdl, "packing"), "pack")
  ELSE Ret(mdl, "")

HandleUnpackPasswordKeys(mdl, key) ==
  IF key = "esc" THEN Ret(SetScreen(mdl, "menu"), "")
  ELSE IF key = "enter"
  THEN IF mdl.textInput = "" THEN Ret(SetError(mdl, "Password cannot be empty"), "")
       ELSE Ret(SetScreen(mdl, "unpacking"), "unpack")
  ELSE Ret(mdl, "")

HandleListPasswordKeys(mdl, key) ==
  IF key = "esc" THEN Ret(SetScreen(mdl, "menu"), "")
  ELSE IF key = "enter"
  THEN IF mdl.textInput = "" THEN Ret(SetError(mdl, "Password cannot be empty"), "")
       ELSE Ret(mdl, "list")
  ELSE Ret(mdl, "")

HandleFileSelectKeys(mdl, key) ==
  IF key = "esc" THEN Ret(SetScreen(mdl, "menu"), "") ELSE Ret(mdl, "")

HandleGenericKeys(mdl, key) ==
  IF key \in {"esc", "q"} THEN Ret(SetScreen(mdl, "menu"), "") ELSE Ret(mdl, "")

\* handleKeyPress: the handler of the current screen; no key reaches the
\* text input or the file picker
HandleKeyPress(mdl, key) ==
  IF mdl.currentScreen = "menu" THEN HandleMenuKeys(mdl, key)
  ELSE IF mdl.currentScreen = "pack_password" THEN HandlePackPasswordKeys(mdl, key)
  ELSE IF mdl.currentScreen = "unpack_password" THEN HandleUnpackPasswordKeys(mdl, key)
  ELSE IF mdl.currentScreen = "list_password" THEN HandleListPasswordKeys(mdl, key)
  ELSE IF mdl.currentScreen \in {"unpack_select", "list_select"}
  THEN HandleFileSelectKeys(mdl, key)
  ELSE HandleGenericKeys(mdl, key)

Msg(kind, text, files) == [kind |-> kind, text |-> text, files |-> files]
NoMsg == Msg("", "", 0)

\* the messages the command of an engine operation can return
ResultMsgs(command) ==
  IF command = "scan"
  THEN { Msg("ErrorMsg", "Error scanning files", 0),
         Msg("ErrorMsg", "No environment files found", 0),
         Msg("ScanCompleteMsg", "", 1) }
  ELSE IF command = "pack"
  THEN { Msg("ErrorMsg", "Error packing files", 0),
         Msg("PackCompleteMsg", "Successfully packed 1 files", 0) }
  ELSE IF command = "unpack"
  THEN { Msg("ErrorMsg", "Error unpacking files", 0),
         Msg("UnpackCompleteMsg", "Files successfully unpacked to current directory", 0) }
  ELSE { Msg("ErrorMsg", "Error listing archive", 0),
         Msg("ListCompleteMsg", "Archive contents", 0) }

\* Update on the message of a command
UpdateOnResult(mdl, msg) ==
  IF msg.kind \in {"PackCompleteMsg", "UnpackCompleteMsg"}
  THEN SetScreen(SetMessage(mdl, msg.text), "menu")
  ELSE IF msg.kind = "ListCompleteMsg"
  THEN SetScreen(SetMessage(mdl, msg.text), "listing")
  ELSE IF msg.kind = "ScanCompleteMsg"
  THEN LET scanned1 == [mdl EXCEPT !.scannedFiles = msg.files]
       IN IF msg.files = 0 THEN SetError(scanned1, "No environment files found")
          ELSE SetScreen(scanned1, "pack_password")
  ELSE SetError(mdl, msg.text)

\* Update on a tea.KeyMsg; a command it returns starts running
UpdateKeyMsg ==
  /\ ~tquit
  /\ \E key \in Keys :
       LET r == HandleKeyPress(model, key)
       IN /\ r.cmd # "" => Len(flight) < MaxFlight
          /\ model' = r.model
          /\ flight' = IF r.cmd # "" THEN Append(flight, r.cmd) ELSE flight
          /\ tquit' = r.quit
          /\ tlast' = Msg("KeyMsg", key, 0)
  /\ UNCHANGED <<fs, dirs, store, scanned, envn, packVars, unpackVars, cryptoVars, scanVars,
                 cliVars, timeVars>>

\* a running command returns its message and Update handles it
UpdateCmdMsg ==
  /\ ~tquit
  /\ \E i \in 1..Len(flight) : \E msg \in ResultMsgs(flight[i]) :
       /\ model' = UpdateOnResult(model, msg)
       /\ flight' = SubSeq(flight, 1, i - 1) \o SubSeq(flight, i + 1, Len(flight))
       /\ tlast' = msg
  /\ UNCHANGED <<fs, dirs, store, scanned, envn, packVars, unpackVars, cryptoVars, scanVars,
                 cliVars, timeVars, tquit>>

(***************************************************************************)
(* Decrypt on its own                                                      *)
(***************************************************************************)
NoOutput == CryptoFail("", "", FALSE, FALSE)

DecryptCall ==
  /\ cout = NoOutput
  /\ cout' = Decrypt(cin.data, cin.password)
  /\ UNCHANGED <<fs, dirs, store, scanned, envn, packVars, unpackVars, cin, ein, eout,
                 scanVars, cliVars, timeVars, tuiVars>>

(***************************************************************************)
(* Encrypt on its own                                                      *)
(***************************************************************************)
\* one more call of Encrypt with the same data and password
EncryptCall ==
  /\ Len(eout) < MaxEncrypts
  /\ \E randOk \in BOOLEAN, salt \in 1..MaxEncRand, nonce \in 1..MaxEncRand :
       eout' = Append(eout, [salt |-> salt, nonce |-> nonce,
                             res |-> Encrypt(ein.data, ein.password, salt, nonce, randOk)])
  /\ UNCHANGED <<fs, dirs, store, scanned, envn, packVars, unpackVars, cin, cout, ein,
                 scanVars, cliVars, timeVars, tuiVars>>

(***************************************************************************)
(* Initial states                                                          *)
(***************************************************************************)
SourceFiles ==
  (SrcRoot \o <<".env">> :> File("A=1", 420, 5000))
  @@ (SrcRoot \o <<".env.backup">> :> File("B=22", 384, 5400))
  @@ (SrcRoot \o <<"metadata.json">> :> File("{}", 420, 6000))

\* what the target directory can hold before an Unpack
OldFiles ==
  (TargetDir \o <<".env">> :> File("OLD", 384, 1000))
  @@ (TargetDir \o <<".env.backup">> :> File("OLDBAK", 420, 2000))
TargetInits ==
  { [q \in S |-> OldFiles[q]] : S \in SUBSET DOMAIN OldFiles }

\* an archive written by an earlier Pack
OldContainer == Container(0, 0, "p", << MetadataMember(Archive(<<>>)) >>)

\* the members of archives that did not come from Pack
CraftedMembers ==
  { MetadataMember(Archive(<<>>)),
    MetadataMember(Archive(<< EnvFile(SourceFiles, SrcRoot, <<".env">>) >>)),
    Member(<<".env">>, 420, 3, 3000, "NEW", <<>>),
    Member(<<".env.backup">>, 420, 4, 4000, "NEW2", <<>>),
    Member(<<"..", "etc", "passwd">>, 420, 4, 3000, "root", <<>>) }
CraftedTars == UNION { [1..n -> CraftedMembers] : n \in 1..MaxCrafted }

\* the inputs of Decrypt on its own: every prefix up to MaxShortLen bytes of
\* a container, the whole container, and the whole container with a bit
\* inverted in any one of its bytes
CryptoInputs ==
  LET whole == Serialize(OldContainer)
  IN { [data |-> Take(whole, n), password |-> pw] :
         n \in (0..MaxShortLen) \cup {BLen(whole)}, pw \in Passwords }
     \cup { [data |-> Flip(whole, i), password |-> pw] :
              i \in 0..(BLen(whole) - 1), pw \in Passwords }
NoInput == [data |-> <<>>, password |-> ""]
NoCmd == [ran |-> FALSE, archiveFile |-> <<>>, include |-> <<>>, exclude |-> <<>>,
          filesToExtract |-> <<>>, outcome |-> ""]

NoHeader == [name |-> <<>>, mode |-> 0, size |-> 0, mtime |-> 0]
NoOpts == [files |-> <<>>, outputPath |-> <<>>, password |-> ""]
NoUnpackOpts == [archivePath |-> <<>>, password |-> "", targetDir |-> <<>>,
                 overwrite |-> FALSE, backup |-> FALSE]

NoScanOpts == [rootPath |-> <<>>, maxDepth |-> 0, patterns |-> <<>>,
               envExcludePatterns |-> <<>>, excludePatterns |-> <<>>]
NoConfig == [defaultDepth |-> 0, envPatterns |-> <<>>, envExcludePatterns |-> <<>>,
             excludePatterns |-> <<>>, maxFileSize |-> 0]

\* no call has begun
InitIdle ==
  /\ envn = 0
  /\ spc = "idle"
  /\ sopts = NoScanOpts
  /\ sconf = NoConfig
  /\ swork = <<>>
  /\ sinfo = NoInfo
  /\ sfiles = <<>>
  /\ sres = NoScanResult
  /\ cmd = NoCmd
  /\ tmp = {}
  /\ pc = [p \in AllProcs |-> "idle"]
  /\ popts = [p \in AllProcs |-> NoOpts]
  /\ tarw = [p \in AllProcs |-> <<>>]
  /\ pidx = [p \in AllProcs |-> 0]
  /\ hdr = [p \in AllProcs |-> NoHeader]
  /\ enc = [p \in AllProcs |-> <<>>]
  /\ pres = [p \in AllProcs |-> NoResult]
  /\ pre = [p \in AllProcs |-> [exists |-> FALSE, data |-> <<>>]]
  /\ seen = [p \in AllProcs |-> <<>>]
  /\ upc = "idle"
  /\ uopts = NoUnpackOpts
  /\ utar = <<>>
  /\ uidx = 0
  /\ ures = NoResult
  /\ fs0 = <<>>
  /\ dirs0 = {}
  /\ cout = NoOutput
  /\ eout = <<>>
  /\ clock = 0
  /\ made = <<>>
  /\ sprev = NoPrev
  /\ model = NewModel
  /\ flight = <<>>
  /\ tlast = NoMsg
  /\ tquit = FALSE

\* the project directory with its output directory and a target directory;
\* the source files have been scanned; every operation works
InitCommon ==
  /\ InitIdle
  /\ dirs = {<<>>, SrcRoot, Dir(OutputPath), TargetDir}
  /\ scanned = << EnvFile(SourceFiles, SrcRoot, <<".env">>),
                  EnvFile(SourceFiles, SrcRoot, <<".env.backup">>),
                  EnvFile(SourceFiles, SrcRoot, <<"metadata.json">>) >>
  /\ bad = <<>>

\* a project with its source files scanned, with or without an earlier
\* archive; an empty target directory
Init ==
  /\ InitCommon
  /\ fs = SourceFiles
  /\ store \in { <<>>, OutputPath :> Serialize(OldContainer) }
  /\ cin = NoInput
  /\ ein = NoInput

\* an archive from elsewhere stands at the archive path
InitCrafted ==
  /\ InitCommon
  /\ \E t \in TargetInits : fs = SourceFiles @@ t
  /\ \E tar \in CraftedTars : store = OutputPath :> Serialize(Container(1, 1, "p", tar))
  /\ cin = NoInput
  /\ ein = NoInput

InitConc ==
  /\ InitCommon
  /\ fs = SourceFiles
  /\ store = <<>>
  /\ cin = NoInput
  /\ ein = NoInput

InitCrypto ==
  /\ InitCommon
  /\ fs = SourceFiles
  /\ store = <<>>
  /\ cin \in CryptoInputs
  /\ ein = NoInput

\* the inputs of Encrypt on its own: no data or a tar of one member, under
\* every password
EncryptInputs ==
  { [data |-> d, password |-> pw] :
      d \in {<<>>} \cup { t \in CraftedTars : Len(t) = 1 }, pw \in Passwords }

InitEnc ==
  /\ InitCommon
  /\ fs = SourceFiles
  /\ store = <<>>
  /\ cin = NoInput
  /\ ein \in EncryptInputs

\* the tar Pack writes for files when nothing fails and no file changes
PackedTar(files, fsys) ==
  << MetadataMember(Archive(files)) >>
  \o [i \in 1..Len(files) |->
        Member(files[i].relativePath, fsys[files[i].path].mode,
               Len(fsys[files[i].path].content),
               TarRoundTime(fsys[files[i].path].mtime),
               fsys[files[i].path].content, <<>>)]

\* the marker file of an initialized project
GitIgnore == (GoingEnvDir \o << ".gitignore" >>) :> File("*", 420, 4000)

\* a project, initialized or not, with an archive that Pack wrote under the
\* password "p", and a target directory that can hold files already
InitCli ==
  /\ InitCommon
  /\ \E t \in TargetInits, initialized \in BOOLEAN :
       fs = IF initialized THEN SourceFiles @@ GitIgnore @@ t ELSE SourceFiles @@ t
  /\ \E files \in FileLists(scanned) :
       /\ Len(files) > 0
       /\ store = OutputPath :> Serialize(Container(1, 1, "p", PackedTar(files, SourceFiles)))
  /\ cin = NoInput
  /\ ein = NoInput

\* time.Now().Format("20060102-150405") at the second t of the clock
Digit(n) == Ch("0123456789", n + 1)
Timestamp(t) == "20240101-0000" \o Digit(t \div 10) \o Digit(t % 10)

\* config.GetDefaultArchivePath()
GetDefaultArchivePath == GoingEnvDir \o << "archive-" \o Timestamp(clock) \o ".enc" >>

\* the values of the pack command's --output flag
OutputNames == {"", "backup.enc", "a.enc", "old"}

\* a run of the pack command that succeeds: the scanned files go into an
\* archive at the default path or, with --output, at that name in .goingenv
PackCommand ==
  /\ Len(made) < MaxPacks
  /\ ~cmd.ran
  /\ IsInitialized(fs, dirs)
  /\ \E output \in OutputNames, key \in Passwords \ {""},
        salt \in 1..MaxRand, nonce \in 1..MaxRand :
       LET path == IF output = "" THEN GetDefaultArchivePath
                   ELSE Join(GoingEnvDir, << output >>)
           r == Encrypt(PackedTar(scanned, fs), key, salt, nonce, TRUE)
       IN /\ store' = Put(store, path, r.out)
          /\ made' = Append(made, path)
  /\ UNCHANGED <<fs, dirs, scanned, envn, packVars, unpackVars, cryptoVars, scanVars,
                 cliVars, clock, tuiVars>>

\* a second passes
Tick ==
  /\ clock < MaxClock
  /\ ~cmd.ran
  /\ clock' = clock + 1
  /\ UNCHANGED <<fs, dirs, store, scanned, envn, packVars, unpackVars, cryptoVars, scanVars,
                 cliVars, made, tuiVars>>

\* an initialized project without archives
InitRecent ==
  /\ InitCommon
  /\ fs = SourceFiles @@ GitIgnore
  /\ store = <<>>
  /\ cin = NoInput
  /\ ein = NoInput

\* a project that has not been initialized: no output directory
InitNoDir ==
  /\ InitIdle
  /\ dirs = {<<>>, SrcRoot, TargetDir}
  /\ scanned = << EnvFile(SourceFiles, SrcRoot, <<".env">>),
                  EnvFile(SourceFiles, SrcRoot, <<".env.backup">>),
                  EnvFile(SourceFiles, SrcRoot, <<"metadata.json">>) >>
  /\ bad = <<>>
  /\ fs = SourceFiles
  /\ store = <<>>
  /\ cin = NoInput
  /\ ein = NoInput

\* the project tree a scan walks: the source files, a dependency directory,
\* a file over the small size limit and files two and four directories down
ScanTreeFiles ==
  SourceFiles
  @@ (SrcRoot \o <<"node_modules", ".env">> :> File("N=1", 420, 5100))
  @@ (SrcRoot \o <<"a", ".env.big">> :> File("BIGBIGBIG", 420, 5200))
  @@ (SrcRoot \o <<"a", "b", ".env">> :> File("D=4", 420, 5300))
  @@ (SrcRoot \o <<"a", "b", "c", "d", ".env">> :> File("E=5", 420, 5500))
ScanTreeDirs ==
  {<<>>, SrcRoot, Dir(OutputPath), SrcRoot \o <<"node_modules">>}
  \cup (Prefixes(SrcRoot \o <<"a", "b", "c", "d">>) \ {<<>>})

\* at most one entry of the tree at which one operation fails: the first
\* file of the walk, a file and a directory further on
BadChoices ==
  { <<>> }
  \cup { q :> op : q \in { SrcRoot \o <<".env">>, SrcRoot \o <<"a", "b", ".env">> },
                   op \in {"lstat", "open", "read"} }
  \cup { d :> op : d \in { SrcRoot \o <<"a", "b">> }, op \in {"lstat", "readdir"} }

InitScan ==
  /\ InitIdle
  /\ fs = ScanTreeFiles
  /\ dirs = ScanTreeDirs
  /\ store = <<>>
  /\ scanned = <<>>
  /\ bad \in BadChoices
  /\ cin = NoInput
  /\ ein = NoInput

\* the project tree twice: at SrcRoot and, file for file, at TwinRoot
TwinFiles ==
  ScanTreeFiles
  @@ [q \in { Rebase(r, SrcRoot, TwinRoot) : r \in DOMAIN ScanTreeFiles } |->
        ScanTreeFiles[Rebase(q, TwinRoot, SrcRoot)]]
TwinDirs ==
  ScanTreeDirs
  \cup { Rebase(d, SrcRoot, TwinRoot) : d \in ScanTreeDirs \ {<<>>} }
  \cup { << "build" >> }

InitTwin ==
  /\ InitIdle
  /\ fs = TwinFiles
  /\ dirs = TwinDirs
  /\ store = <<>>
  /\ scanned = <<>>
  /\ bad = <<>>
  /\ cin = NoInput
  /\ ein = NoInput

(***************************************************************************)
(* Specifications                                                          *)
(***************************************************************************)
PackNext(p) ==
  \/ PackBegin(p)
  \/ PackStat(p)
  \/ PackCopy(p)
  \/ PackFinish(p)
  \/ PackOpenOut(p)
  \/ PackWriteOut(p)
  \/ PackAbort(p)

UnpackNext == UnpackStart \/ UnpackMember

\* Unpack is called once a Pack has succeeded, on the archive it wrote
UnpackAfterPack == pres[1].ok /\ UnpackStart

\* one Pack and, once it has succeeded, one Unpack of its archive
Next ==
  \/ PackNext(1)
  \/ EnvChange({1})
  \/ UnpackAfterPack
  \/ UnpackMember

Spec == Init /\ [][Next]_vars

\* one Unpack of an archive from elsewhere
SpecCrafted == InitCrafted /\ [][UnpackNext]_vars

\* two Packs to the same output path, running concurrently
NextConc == \E p \in AllProcs : PackNext(p)
SpecConc == InitConc /\ [][NextConc]_vars

\* Pack calls running at the same time, each with an output path of its own,
\* none of them killed
PackOwnNext(p) ==
  \/ PackBeginOwn(p)
  \/ PackStat(p)
  \/ PackCopy(p)
  \/ PackFinish(p)
  \/ PackOpenOut(p)
  \/ PackWriteOut(p)
NextOwn == \E p \in AllProcs : PackOwnNext(p)
SpecOwn == InitConc /\ [][NextOwn]_vars

\* Decrypt applied to one input
SpecCrypto == InitCrypto /\ [][DecryptCall]_vars

\* Encrypt applied several times to one input
SpecEnc == InitEnc /\ [][EncryptCall]_vars

\* a Pack into a project without output directory; after it has failed the
\* caller creates the directory and calls Pack again
NextNoDir ==
  \/ PackNext(1)
  \/ MakeOutputDir
  \/ PackRetry
  \/ PackStat(2)
  \/ PackCopy(2)
  \/ PackFinish(2)
  \/ PackOpenOut(2)
  \/ PackWriteOut(2)
  \/ PackAbort(2)
SpecNoDir == InitNoDir /\ [][NextNoDir]_vars

\* one run of the unpack command
NextCli == RunUnpackCommand \/ UnpackMember
SpecCli == InitCli /\ [][NextCli]_vars

\* pack commands, then one run of the unpack command without -f
NextRecent == PackCommand \/ Tick \/ RunUnpackLatest \/ UnpackMember
SpecRecent == InitRecent /\ [][NextRecent]_vars

\* one ScanFiles over the project tree, while somebody else changes a file
NextScan ==
  \/ ScanBegin
  \/ ScanStat
  \/ ScanVisit
  \/ ScanEnvChange
SpecScan == InitScan /\ [][NextScan]_vars

\* the TUI of an initialized project: key presses and returning commands
NextTui == UpdateKeyMsg \/ UpdateCmdMsg
SpecTui == InitConc /\ [][NextTui]_vars

\* a scan of one copy of the project tree, then a scan of the other copy
\* with the same options; nothing fails and nobody changes a file
NextTwin ==
  \/ ScanTwinBegin
  \/ ScanStat
  \/ ScanVisit
  \/ ScanAgain
SpecTwin == InitTwin /\ [][NextTwin]_vars

(***************************************************************************)
(* Properties                                                              *)
(***************************************************************************)
Distinct(files) ==
  \A i, j \in 1..Len(files) : i # j => files[i].relativePath # files[j].relativePath

UnpackFailed ==
  ures.returned /\ ~ures.ok /\ ures.type = "ArchiveError" /\ ures.op = "unpack"

\* the tar inside the container that stands at the archive path
ArchiveTar == store[OutputPath][1].c.pt

Outside(name) == ~IsPrefix(TargetDir, Join(TargetDir, name))

\* C1: after a successful Pack of files with pairwise distinct relative
\* paths and a successful Unpack with the same password into the empty
\* target directory, every packed file stands at target_dir/relative_path
\* with the content, mode and modification time Pack read from its source.
C1_RoundTrip ==
  (pres[1].ok /\ upc = "done" /\ ures.ok /\ uopts.password = popts[1].password
   /\ Distinct(popts[1].files))
  => \A i \in 1..Len(popts[1].files) :
       LET t == Join(TargetDir, popts[1].files[i].relativePath)
       IN /\ t \in DOMAIN fs
          /\ fs[t].content = seen[1][i].content
          /\ fs[t].mode = seen[1][i].mode
          /\ fs[t].mtime = seen[1][i].mtime

\* C2: an Unpack of a container with a member name that resolves outside
\* the target directory writes nothing, no file and no directory, and ends
\* in an ArchiveError of operation unpack.
C2_TraversalRejected ==
  (upc # "idle" /\ \E i \in 1..Len(ArchiveTar) : Outside(ArchiveTar[i].name))
  => /\ fs = fs0
     /\ dirs = dirs0
     /\ upc = "done" => UnpackFailed

\* C3: when the process is killed during Pack, the output path is as it was
\* before the call or holds the complete new archive.
C3_AbortLeavesOldOrNew ==
  pc[1] = "killed"
  => \/ Snapshot(OutputPath) = pre[1]
     \/ enc[1] # <<>> /\ Snapshot(OutputPath) = [exists |-> TRUE, data |-> enc[1]]

\* C4: when Pack returns an error, the output path is as it was before the
\* call.
C4_ErrorLeavesOutput ==
  (pc[1] = "done" /\ ~pres[1].ok) => Snapshot(OutputPath) = pre[1]

\* C5: an Unpack of the archive Pack wrote, with another password than
\* Pack's, ends in an ArchiveError of operation unpack and leaves every file
\* and directory as it was.
C5_WrongPasswordUnchanged ==
  (upc # "idle" /\ pres[1].ok /\ uopts.password # popts[1].password)
  => /\ upc = "done"
     /\ UnpackFailed
     /\ fs = fs0
     /\ dirs = dirs0

\* C5, the case: Unpack was given a wrong, non-empty password, read the
\* archive of a successful Pack and returned from the decryption step.
C5_Witness ==
  /\ pres[1].ok
  /\ upc = "done"
  /\ uopts.password \notin {"", popts[1].password}
  /\ ures.step = "decrypt archive"

\* C6: on an input shorter than 60 bytes Decrypt fails with a CryptoError of
\* operation decrypt, and neither key derivation nor gcm.Open has run.
C6_ShortInputRejectedEarly ==
  (cout # NoOutput /\ BLen(cin.data) < SaltSize + NonceSize + TagSize)
  => /\ ~cout.ok
     /\ cout.op = "decrypt"
     /\ ~cout.kdf
     /\ ~cout.open

\* C7: an Unpack of a container whose first tar member is not metadata.json
\* extracts nothing and ends in an ArchiveError of operation unpack.
C7_MetadataFirstRequired ==
  (upc # "idle" /\ utar # <<>> /\ utar[1].name # MetadataName)
  => /\ fs = fs0
     /\ upc = "done" => UnpackFailed

\* C8: in the container of a successful Pack every record of the manifest
\* has a tar member of the record's relative path and the record's size.
C8_ManifestMatchesMembers ==
  pres[1].ok
  => LET tar == enc[1][1].c.pt
         manifest == tar[1].meta[1]
     IN \A i \in 1..Len(manifest.files) :
          \E j \in 2..Len(tar) :
            /\ tar[j].name = manifest.files[i].relativePath
            /\ tar[j].size = manifest.files[i].size

\* C9: when two concurrent Packs to one output path have both returned
\* success, the file there is the complete container of one of them.
C9_LastWriterWins ==
  (pres[1].ok /\ pres[2].ok)
  => /\ OutputPath \in DOMAIN store
     /\ store[OutputPath] \in {enc[1], enc[2]}

\* C10: after a successful Unpack with overwrite and backup, every member's
\* target path that existed before the call has its earlier content at the
\* path with ".backup" appended.
C10_BackupHoldsOldContent ==
  (upc = "done" /\ ures.ok /\ uopts.overwrite /\ uopts.backup)
  => \A i \in 1..Len(utar) :
       LET t == Join(TargetDir, utar[i].name)
       IN (utar[i].name # MetadataName /\ t \in DOMAIN fs0)
          => /\ BackupPath(t) \in DOMAIN fs
             /\ fs[BackupPath(t)].content = fs0[t].content

\* C11: during and after an Unpack with overwrite false, with or without
\* backup, every file that stood in the target directory when Unpack was
\* called still stands there with the content, mode and modification time it
\* had; and the turn of the loop that meets a member whose target exists
\* changes no file and goes on to the next member.
C11_NoOverwriteKeepsExisting ==
  /\ [](
       (upc # "idle" /\ ~uopts.overwrite)
       => \A q \in DOMAIN fs0 :
            IsPrefix(TargetDir, q) => (q \in DOMAIN fs /\ fs[q] = fs0[q]))
  /\ [][
       (upc = "loop" /\ ~uopts.overwrite /\ uidx <= Len(utar)
        /\ Exists(fs, dirs, Join(TargetDir, utar[uidx].name)))
       => (fs' = fs /\ upc' = "loop" /\ uidx' = uidx + 1)
     ]_vars

\* C11, the case: an Unpack with overwrite false and backup true has ended in
\* success after meeting a member whose target stood in the target directory
\* before the call.
C11_Witness ==
  /\ upc = "done"
  /\ ures.ok
  /\ ~uopts.overwrite
  /\ uopts.backup
  /\ \E i \in 1..Len(utar) :
       /\ utar[i].name # MetadataName
       /\ Join(TargetDir, utar[i].name) \in DOMAIN fs0

\* C13: a ScanFiles that returns an error returns no records; the scan ends
\* in an error at the entry whose lstat or directory read fails, however many
\* records it has gathered; and a file whose open or read fails is never
\* emitted as a record.
C13_ScanErrorReturnsNothing ==
  /\ []((sres.returned /\ ~sres.ok) => scanned = <<>>)
  /\ [][
       ((spc = "stat" /\ Fails(Head(swork), "lstat"))
        \/ (spc = "visit" /\ sinfo.isDir /\ Fails(Head(swork), "readdir")))
       => (spc' = "done" /\ sres'.returned /\ ~sres'.ok /\ scanned' = <<>>)
     ]_vars
  /\ [][
       (spc = "visit" /\ ~sinfo.isDir
        /\ (Fails(Head(swork), "open") \/ Fails(Head(swork), "read")))
       => (sfiles' = sfiles /\ (sres'.returned /\ ~sres'.ok => scanned' = <<>>))
     ]_vars

\* C13, the case: the scan has failed with a ScanError at an entry after it
\* had gathered a record.
C13_Witness ==
  /\ sres.returned
  /\ ~sres.ok
  /\ sres.type = "ScanError"
  /\ sres.path \in DOMAIN bad
  /\ sfiles # <<>>

\* C14: in every record a successful ScanFiles returns, the size is the
\* length of the content the checksum was computed from.
C14_RecordDescribesOneContent ==
  sres.ok
  => \A i \in 1..Len(scanned) : scanned[i].size = Len(scanned[i].checksum[2])

\* C15: no record gathered by a scan has a relative path with more
\* separators than the scan's effective depth limit.
C15_DepthBound ==
  \A i \in 1..Len(sfiles) :
    Count(PathString(sfiles[i].relativePath), "/") <= sopts.maxDepth

\* C15, the case: a scan of the project root with depth limit 1 has
\* succeeded and returned a record one directory down, while a matching
\* file stands two directories down.
C15_Witness ==
  /\ sres.ok
  /\ sopts.rootPath = SrcRoot
  /\ sopts.maxDepth = 1
  /\ \E i \in 1..Len(scanned) : Len(scanned[i].relativePath) = 2
  /\ SrcRoot \o <<"a", "b", ".env">> \in DOMAIN fs
  /\ MatchesAny(sopts.patterns, ".env")

\* C16: no record gathered by a scan has a size above the Config's
\* MaxFileSize, and the visit of a file above it emits nothing and does not
\* end the scan in an error.
C16_SizeBound ==
  /\ [](\A i \in 1..Len(sfiles) : sfiles[i].size <= sconf.maxFileSize)
  /\ [][
       (spc = "visit" /\ ~sinfo.isDir /\ sinfo.size > sconf.maxFileSize)
       => (sfiles' = sfiles /\ ~(sres'.returned /\ ~sres'.ok))
     ]_vars

\* C16, the case: a scan under the small size limit has walked past the
\* larger file a/.env.big, has succeeded and has returned other files.
C16_Witness ==
  /\ sres.ok
  /\ sconf.maxFileSize = SmallFileLimit
  /\ sopts.rootPath = SrcRoot
  /\ MatchesAny(sopts.patterns, ".env.big")
  /\ Len(fs[SrcRoot \o <<"a", ".env.big">>].content) > SmallFileLimit
  /\ scanned # <<>>

\* C17: no record gathered by a scan lies beneath a directory of the walk
\* (the root or a directory below it) whose path followed by "/" matches an
\* exclude pattern.
C17_ExcludedSubtreePruned ==
  \A i \in 1..Len(sfiles) :
    \A n \in Len(sopts.rootPath)..(Len(sfiles[i].path) - 1) :
      ~MatchesAny(sopts.excludePatterns,
                  PathString(SubSeq(sfiles[i].path, 1, n)) \o "/")

\* C17, the case: a scan of the project root under the default exclude
\* patterns has succeeded and returned records, while node_modules/.env
\* stands in the tree within the depth limit.
C17_Witness ==
  /\ sres.ok
  /\ sopts.rootPath = SrcRoot
  /\ sopts.excludePatterns = DefaultExcludePatterns
  /\ MatchesAny(sopts.patterns, ".env")
  /\ SrcRoot \o <<"node_modules", ".env">> \in DOMAIN fs
  /\ scanned # <<>>

\* C12: when the unpack command was given include or exclude patterns (and
\* no backup was asked for), the target path of every archive member that
\* is not among the files the filter selected is left as it was: absent, or
\* the file that stood there before.
C12_OnlyFilteredExtracted ==
  (cmd.outcome = "unpack" /\ ~uopts.backup
   /\ (Len(cmd.include) > 0 \/ Len(cmd.exclude) > 0))
  => \A i \in 1..Len(utar) :
       LET q == Join(TargetDir, utar[i].name)
       IN (\A j \in 1..Len(cmd.filesToExtract) :
             cmd.filesToExtract[j].relativePath # utar[i].name)
          => (q \in DOMAIN fs => (q \in DOMAIN fs0 /\ fs[q] = fs0[q]))

\* C18: in the manifest of the container a successful Pack wrote, the
\* relative paths of the records are pairwise distinct.
C18_ManifestPathsDistinct ==
  pres[1].ok => Distinct(Decrypt(enc[1], popts[1].password).out[1].meta[1].files)

\* C19: the tar in the container a successful Pack wrote, once decrypted,
\* has as member names metadata.json and then the relative paths of the
\* input records, in the order of the input.
C19_MemberOrder ==
  pres[1].ok
  => LET tar == Decrypt(enc[1], popts[1].password).out
         files == popts[1].files
     IN /\ Len(tar) = Len(files) + 1
        /\ tar[1].name = MetadataName
        /\ \A i \in 1..Len(files) : tar[i + 1].name = files[i].relativePath

\* C19, the case: a Pack of two records with different relative paths has
\* succeeded.
C19_Witness ==
  /\ pres[1].ok
  /\ Len(popts[1].files) = 2
  /\ popts[1].files[1].relativePath # popts[1].files[2].relativePath
  /\ OutputPath \in DOMAIN store
  /\ store[OutputPath] = enc[1]

\* C20: a Pack that has returned while the directory of its output path
\* does not exist has returned an ArchiveError of operation pack and left no
\* file at the output path; and no step taken while that Pack runs creates
\* a directory.
C20_MissingOutputDir ==
  /\ []((pc[1] = "done" /\ Dir(OutputPath) \notin dirs)
        => /\ ~pres[1].ok
           /\ pres[1].type = "ArchiveError"
           /\ pres[1].op = "pack"
           /\ OutputPath \notin DOMAIN store)
  /\ [][pc[1] # "done" => dirs' = dirs]_vars

\* C20, the case: a Pack failed writing its output for want of the
\* directory, the caller created the directory, and the same Pack then
\* succeeded and its archive stands at the output path.
C20_Witness ==
  /\ pres[1].returned
  /\ pres[1].step = "write encrypted file"
  /\ ~pre[2].exists
  /\ popts[2] = popts[1]
  /\ pres[2].ok
  /\ OutputPath \in DOMAIN store
  /\ store[OutputPath] = enc[2]

\* C21: when Pack has returned, with success or with any error, its
\* temporary tar file does not exist.
C21_TempFileRemoved ==
  \A p \in AllProcs : pc[p] = "done" => p \notin tmp

\* C21, the case: a Pack has returned an error from a step that comes after
\* the creation of the temporary file.
C21_Witness ==
  /\ pc[1] = "done"
  /\ ~pres[1].ok
  /\ pres[1].step \in {"stat file", "write file", "encrypt data", "write encrypted file"}
  /\ tarw[1] # <<>>
  /\ 1 \notin tmp

\* C22: when Encrypt or Decrypt has returned, the buffer that held the
\* derived key has been overwritten with zeros (here: for Decrypt).
C22_KeyZeroed ==
  (cout # NoOutput /\ cout.keybuf.alloc) => cout.keybuf.zeroed

\* the tampered inputs: one byte is not the container's
IsTampered(b) == \E i \in 1..Len(b) : "flipped" \in DOMAIN b[i].c

C24_FreshContainers ==
  \A i \in 1..Len(eout) : \A j \in 1..Len(eout) :
    (i < j /\ eout[i].res.ok /\ eout[j].res.ok
       /\ <<eout[i].salt, eout[i].nonce>> # <<eout[j].salt, eout[j].nonce>>)
    => /\ eout[i].res.out # eout[j].res.out
       /\ Decrypt(eout[i].res.out, ein.password).ok
       /\ Decrypt(eout[i].res.out, ein.password).out = ein.data
       /\ Decrypt(eout[j].res.out, ein.password).ok
       /\ Decrypt(eout[j].res.out, ein.password).out = ein.data

\* C24, the case: Encrypt has succeeded twice on one input with different
\* draws.
C24_Witness ==
  /\ Len(eout) >= 2
  /\ eout[1].res.ok
  /\ eout[2].res.ok
  /\ eout[1].salt # eout[2].salt
  /\ Decrypt(eout[2].res.out, ein.password).out = ein.data


\* C25: of Pack calls running at the same time with pairwise different
\* output paths, no step of one changes anything another one owns, and each
\* call that has returned success has at its output path the complete
\* container of its own tar.
C25_ConcurrentDistinct ==
  /\ [](\A p \in AllProcs :
          (pc[p] = "done" /\ pres[p].ok)
          => /\ ConcurrentPath(p) \in DOMAIN store
             /\ store[ConcurrentPath(p)] = enc[p]
             /\ Len(enc[p]) = 1
             /\ enc[p][1].from = 0
             /\ enc[p][1].to = CLen(enc[p][1].c)
             /\ enc[p][1].c.pt = tarw[p]
             /\ enc[p][1].c.pw = popts[p].password
             /\ tarw[p] = PackedTar(popts[p].files, fs))
  /\ [][\A p \in AllProcs :
          pc'[p] = pc[p] =>
            << pres'[p], tarw'[p], enc'[p], p \in tmp', Snapshot(ConcurrentPath(p))' >>
            = << pres[p], tarw[p], enc[p], p \in tmp, Snapshot(ConcurrentPath(p)) >>]_vars

\* C25, the case: two Pack calls with different output paths have both
\* returned success and each path holds the container of its call.
C25_Witness ==
  /\ \A p \in AllProcs : pc[p] = "done" /\ pres[p].ok
                          /\ store[ConcurrentPath(p)] = enc[p]
  /\ ConcurrentPath(1) # ConcurrentPath(2)
  /\ DOMAIN store = {ConcurrentPath(1), ConcurrentPath(2)}


\* C26: after successful pack commands into .goingenv, under default or
\* custom names (here: names that end in ".enc"), the unpack command run
\* without -f works on the archive that was written last.
C26_LatestArchive ==
  (/\ cmd.ran
   /\ Len(made) > 0
   /\ \A i \in 1..Len(made) : HasSuffix(made[i][Len(made[i])], ".enc"))
  => cmd.archiveFile = made[Len(made)]


\* the relative paths the manifest of the archive being unpacked lists
ManifestPaths ==
  IF utar # <<>> /\ utar[1].name = MetadataName /\ utar[1].meta # <<>>
  THEN { f.relativePath : f \in Range(utar[1].meta[1].files) }
  ELSE {}

\* C27: every file Unpack has created or modified stands at target_dir/r or
\* at its ".backup" sibling for a relative path r that the manifest lists; a
\* member the manifest does not list is never written.
C27_OnlyManifestPaths ==
  upc # "idle" =>
    \A q \in DOMAIN fs :
      (q \notin DOMAIN fs0 \/ fs[q] # fs0[q])
      => \E r \in ManifestPaths :
           q \in { Join(uopts.targetDir, r), BackupPath(Join(uopts.targetDir, r)) }


\* C28: two scans with the same options of two copies of one tree, standing
\* at different places, emit the same set of relative paths.
C28_RootIndependent ==
  (sprev.set /\ spc = "done" /\ sprev.result.ok /\ sres.ok)
  => { f.relativePath : f \in Range(scanned) } = sprev.paths


\* C29: when Update has handled an ErrorMsg, PackCompleteMsg,
\* UnpackCompleteMsg or ListCompleteMsg, the text of the message is in the
\* model's error or message field.
C29_ResultTextKept ==
  tlast.kind \in {"ErrorMsg", "PackCompleteMsg", "UnpackCompleteMsg", "ListCompleteMsg"}
  => tlast.text \in {model.error, model.message}

\* C30: at most one engine operation of the TUI is in flight.
C30_OneInFlight == Len(flight) <= 1

====
